---- MODULE Spec2Model ----
(***************************************************************************)
(* A model of mpbuild's resolution and command-synthesis engine            *)
(* (src/mpbuild/build.py) and of the CLI commands that call it             *)
(* (src/mpbuild/cli.py).                                                   *)
(*                                                                         *)
(* Strings that the code takes apart are modelled by their parts: a path   *)
(* or a make argument is the sequence of its "/"-separated segments, with  *)
(* a leading "/" segment for an absolute path (pathlib's `parts`), and a   *)
(* shell command is a record whose `script` is the sequence of its steps,  *)
(* each step a sequence of tokens.                                         *)
(***************************************************************************)
EXTENDS Naturals, Integers, Sequences, FiniteSets, TLC

\* Longest extra-argument list given to build_board / docker_build_cmd.
MaxBuildArgs == 2
\* Longest extra-argument list given to make_command.
MaxMakeArgs == 4

\* Python's None, where a string is expected.
None == "None"
\* Python truthiness of an Optional[str].
Truthy(x) == x # None /\ x # ""

\* All sequences over S of length 0..n.
SeqsUpTo(S, n) == UNION {[1..k -> S] : k \in 0..n}

(***************************************************************************)
(* pathlib                                                                 *)
(***************************************************************************)
\* Path(s): pathlib drops "." segments and keeps ".." segments.
RECURSIVE PathOf(_)
PathOf(s) ==
    IF s = <<>> THEN <<>>
    ELSE IF Head(s) = "." THEN PathOf(Tail(s))
    ELSE <<Head(s)>> \o PathOf(Tail(s))

is_absolute(p) == Len(p) > 0 /\ p[1] = "/"

\* a / b
JoinPath(a, b) == IF is_absolute(b) THEN b ELSE a \o b

\* p.parents: the proper ancestors of p.
parents(p) ==
    {SubSeq(p, 1, k) : k \in (IF is_absolute(p) THEN 1 ELSE 0)..(Len(p) - 1)}

\* p.relative_to(base), used where base is p or an ancestor of p.
relative_to(p, base) == SubSeq(p, Len(base) + 1, Len(p))

\* str.strip() on the argument strings of the model.
strip(s) ==
    CASE s = " clean" -> "clean"
      [] s = "clean " -> "clean"
      [] OTHER -> s

(***************************************************************************)
(* The board catalog (board_database) and the host environment             *)
(***************************************************************************)
MpyRoot == <<"/", "tree">>

Boards ==
    { [name |-> "PICO", port |-> "rp2", physical_board |-> TRUE,
       variants |-> <<"RISCV", "FLASH_2M">>, deploy |-> TRUE],
      [name |-> "PYBV11", port |-> "stm32", physical_board |-> TRUE,
       variants |-> <<"DP">>, deploy |-> TRUE],
      [name |-> "unix", port |-> "unix", physical_board |-> FALSE,
       variants |-> <<"standard">>, deploy |-> FALSE],
      [name |-> "WIPY", port |-> "cc3200", physical_board |-> TRUE,
       variants |-> <<>>, deploy |-> TRUE] }

BoardNames == {b.name : b \in Boards}
\* db.boards[name]
BoardNamed(n) == CHOOSE b \in Boards : b.name = n

\* Board.find_variant(name): the variant of that exact name, or None.
find_variant(b, v) ==
    IF \E i \in 1..Len(b.variants) : b.variants[i] = v THEN v ELSE None

\* ports_and_boards(): port name -> the names of its boards.
ports_and_boards ==
    [p \in {b.port : b \in Boards} |-> {b.name : b \in {x \in Boards : x.port = p}}]

Hosts == { [uid |-> 1000, gid |-> 100, home |-> "/home/dev", nprocs |-> "8"],
           [uid |-> 0, gid |-> 0, home |-> "/root", nprocs |-> "2"] }

(***************************************************************************)
(* Container registry                                                      *)
(***************************************************************************)
ARM_BUILD_CONTAINER == "micropython/build-micropython-arm"
RISCV_BUILD_CONTAINER == "micropython/build-micropython-rp2350riscv"
ARM_BOOKWORM_CONTAINER == "micropython/build-micropython-arm:bookworm"

BuildContainerPorts ==
    {"stm32", "rp2", "nrf", "mimxrt", "renesas-ra", "samd", "esp32", "esp8266", "unix"}

BUILD_CONTAINERS(p) ==
    CASE p \in {"stm32", "rp2", "nrf", "mimxrt", "renesas-ra", "samd"} -> ARM_BUILD_CONTAINER
      [] p = "esp32" -> "espressif/idf:v5.2.2"
      [] p = "esp8266" -> "larsks/esp-open-sdk"
      [] p = "unix" -> "gcc:12-bookworm"

\* The result of a call: the exception raised ("" for none) and the value.
Returned(v) == [raised |-> "", value |-> v]
Raised(e) == [raised |-> e, value |-> ""]

\* Mutant: rp2 without a RISC-V variant falls through to the table.
get_build_container_unpinned(b, variant) ==
    IF b.port = "rp2" /\ variant = "RISCV" THEN Returned(RISCV_BUILD_CONTAINER)
    ELSE IF b.port \in BuildContainerPorts THEN Returned(BUILD_CONTAINERS(b.port))
    ELSE Raised("MpbuildNotSupportedException")

get_build_container(b, variant) ==
    IF b.port = "rp2" THEN
        IF variant = "RISCV" THEN Returned(RISCV_BUILD_CONTAINER)
        ELSE Returned(ARM_BOOKWORM_CONTAINER)
    ELSE IF b.port \in BuildContainerPorts THEN Returned(BUILD_CONTAINERS(b.port))
    ELSE Raised("MpbuildNotSupportedException")

(***************************************************************************)
(* Command synthesis                                                       *)
(***************************************************************************)
\* One word of a shell command.
Tok(s) == <<s>>
\* " ".join of the words of a make invocation is kept as the word sequence.
GitSafeDirectoryStep ==
    <<Tok("git"), Tok("config"), Tok("--global"), Tok("--add"), Tok("safe.directory"), Tok("'*'")>>
MakeMpyCrossStep == <<Tok("make"), Tok("-C"), Tok("mpy-cross")>>

\* No command (Python has none in hand).
NoCmd ==
    [interactive |-> FALSE, mount |-> <<>>, workdir |-> <<>>, user |-> <<0, 0>>,
     home |-> "", image |-> "", script |-> <<>>]

\* A call that raised before it had a command.
NotMade(e) == [raised |-> e, value |-> NoCmd]

\* extra_args = None (the list is absent).
NoneArgs == << <<"<None>">> >>

\* f" {variant_param}={variant}", or "" when variant is None.
variant_cmd(b, variant) ==
    IF variant = None THEN <<>>
    ELSE << <<(IF b.physical_board THEN "BOARD_VARIANT=" ELSE "VARIANT="), variant>> >>

\* The uid:gid the container runs as.
container_user(host, do_clean) ==
    IF do_clean THEN <<0, 0>> ELSE <<host.uid, host.gid>>

\* Mutant: the pre-build steps are kept when cleaning.
prebuild_steps_always(b, variant, do_clean) ==
    << MakeMpyCrossStep,
       <<Tok("make"), Tok("-C"), <<"ports", b.port>>, <<"BOARD=", b.name>>>>
           \o variant_cmd(b, variant) \o <<Tok("submodules")>> >>

\* The steps run before the main make: none when cleaning.
prebuild_steps(b, variant, do_clean) ==
    IF do_clean THEN <<>>
    ELSE << MakeMpyCrossStep,
            <<Tok("make"), Tok("-C"), <<"ports", b.port>>, <<"BOARD=", b.name>>>>
                \o variant_cmd(b, variant) \o <<Tok("submodules")>> >>

\* make -j {nprocs} -C ports/{port} BOARD={board}{variant_cmd}{args}
main_make_step(b, variant, extra_args, host) ==
    <<Tok("make"), Tok("-j"), Tok(host.nprocs), Tok("-C"), <<"ports", b.port>>,
      <<"BOARD=", b.name>>>> \o variant_cmd(b, variant) \o extra_args

\* args = " " + " ".join(extra_args) raises TypeError when extra_args is None.
docker_build_cmd(b, variant, extra_args, do_clean, build_container_override, docker_interactive, host) ==
    IF Truthy(variant) /\ find_variant(b, variant) = None THEN NotMade("ValueError")
    ELSE
      LET build_container ==
              IF Truthy(build_container_override)
              THEN Returned(build_container_override)
              ELSE get_build_container(b, variant)
      IN  IF build_container.raised # "" THEN NotMade(build_container.raised)
          ELSE IF extra_args = NoneArgs THEN NotMade("TypeError")
          ELSE Returned(
                 [interactive |-> docker_interactive,
                  mount |-> MpyRoot, workdir |-> MpyRoot,
                  user |-> container_user(host, do_clean),
                  home |-> host.home,
                  image |-> build_container.value,
                  script |-> <<GitSafeDirectoryStep>>
                             \o prebuild_steps(b, variant, do_clean)
                             \o <<main_make_step(b, variant, extra_args, host)>>])

(***************************************************************************)
(* Build executor                                                          *)
(***************************************************************************)
\* SystemExit() carries no code.
NoCode == -1

\* The process exit status of an invocation that ended by `how`.
exit_status(how, code) ==
    CASE how = "return" -> 0
      [] how = "SystemExit" -> (IF code = NoCode THEN 0 ELSE code)
      [] how = "typer.Exit" -> code
      [] OTHER -> 1

\* str.strip() of an argument: its first and last segments stripped.
strip_arg(a) == [i \in DOMAIN a |-> IF i \in {1, Len(a)} THEN strip(a[i]) ELSE a[i]]

\* Mutant: the first argument is compared without strip().
is_clean_unstripped(extra_args) ==
    extra_args # NoneArgs /\ extra_args # <<>> /\ extra_args[1] = Tok("clean")

\* bool(extra_args and extra_args[0].strip() == "clean")
is_clean(extra_args) ==
    extra_args # NoneArgs /\ extra_args # <<>> /\ strip_arg(extra_args[1]) = Tok("clean")

\* "clean" not in extra_args
no_clean_arg(extra_args) == \A i \in DOMAIN extra_args : extra_args[i] # Tok("clean")

\* What an invocation leaves behind.
Outcome(do_clean, cmd, displayed, executed, returncode, how, code) ==
    [do_clean |-> do_clean, build_cmd |-> cmd, displayed |-> displayed,
     executed |-> executed, returncode |-> returncode, how |-> how, code |-> code]

\* The early exit of a resolution failure: print(message); raise SystemExit()
resolution_failure(message) ==
    Outcome(FALSE, NoCmd, <<Tok(message)>>, 0, NoCode, "SystemExit", NoCode)

\* The deploy panel is printed after a successful run.
show_deploy(b, extra_args, returncode, deploy_file) ==
    b.deploy /\ no_clean_arg(extra_args) /\ returncode = 0 /\ deploy_file

\* build_board; rc is the container's exit code, deploy_file whether
\* _board.deploy_filename.is_file().
build_board(board, variant, extra_args, build_container_override, host, rc, deploy_file) ==
    IF board \notin BoardNames THEN resolution_failure("Invalid board")
    ELSE
      LET b == BoardNamed(board) IN
      IF variant # None /\ find_variant(b, variant) = None
      THEN resolution_failure("Invalid variant")
      ELSE IF b.port \notin BuildContainerPorts
      THEN resolution_failure("unsupported port")
      ELSE
        LET do_clean == is_clean(extra_args)
            made == docker_build_cmd(b, variant, extra_args, do_clean,
                                     build_container_override, TRUE, host)
            title == IF do_clean THEN "Build" ELSE "Clean"
        IN  IF made.raised # ""
            THEN Outcome(do_clean, NoCmd, <<>>, 0, NoCode, made.raised, NoCode)
            ELSE IF rc # 0
            THEN Outcome(do_clean, made.value, <<<<"command", title>>, Tok("ERROR")>>, 1, rc,
                         "SystemExit", rc)
            ELSE Outcome(do_clean, made.value,
                         << <<"command", title>> >> \o
                           (IF show_deploy(b, extra_args, rc, deploy_file)
                            THEN <<Tok("deploy")>> ELSE <<>>),
                         1, rc, "return", NoCode)

\* clean_board
clean_board(board, variant, host, rc, deploy_file) ==
    build_board(board, variant, <<Tok("clean")>>, None, host, rc, deploy_file)

(***************************************************************************)
(* Pass-through make mode                                                  *)
(***************************************************************************)
\* No path (make_path_from_args = None).
NoPath == <<>>

\* Index of the first "-C" that has an argument after it; 0 when there is none.
c_index(extra_args) ==
    LET hits == {i \in 1..(Len(extra_args) - 1) : extra_args[i] = Tok("-C")}
    IN  IF hits = {} THEN 0 ELSE CHOOSE i \in hits : \A j \in hits : i <= j

ports_path == MpyRoot \o <<"ports">>

\* Mutant: the -C argument is read even when a port was given.
port_from_args_always(extra_args, port, cwd) ==
    LET i == c_index(extra_args)
        nothing == [current_port |-> port, make_path_from_args |-> NoPath]
    IN  IF extra_args # NoneArgs /\ extra_args # <<>> /\ i > 0
        THEN LET target_path == PathOf(extra_args[i + 1])
                 target_path_obj == IF is_absolute(target_path) THEN target_path
                                    ELSE JoinPath(cwd, target_path)
             IN  IF ports_path \in parents(target_path_obj)
                 THEN [current_port |-> relative_to(target_path_obj, ports_path)[1],
                       make_path_from_args |-> relative_to(target_path_obj, MpyRoot)]
                 ELSE nothing
        ELSE nothing

\* The port and make path taken from a -C argument of extra_args.
port_from_args(extra_args, port, cwd) ==
    LET i == c_index(extra_args)
        nothing == [current_port |-> port, make_path_from_args |-> NoPath]
    IN  IF ~Truthy(port) /\ extra_args # NoneArgs /\ extra_args # <<>> /\ i > 0
        THEN LET target_path == PathOf(extra_args[i + 1])
                 target_path_obj == IF is_absolute(target_path) THEN target_path
                                    ELSE JoinPath(cwd, target_path)
             IN  IF ports_path \in parents(target_path_obj)
                 THEN [current_port |-> relative_to(target_path_obj, ports_path)[1],
                       make_path_from_args |-> relative_to(target_path_obj, MpyRoot)]
                 ELSE nothing
        ELSE nothing

\* The port of the working directory, else the one find_mpy_root detected.
port_from_cwd(current_port, cwd, auto_port) ==
    IF Truthy(current_port) THEN current_port
    ELSE IF ports_path \in parents(cwd) THEN relative_to(cwd, ports_path)[1]
    ELSE auto_port

\* Mutant: only the "-C" word is removed, its path is kept.
strip_c_flag_only(extra_args) ==
    LET i == c_index(extra_args)
    IN  IF extra_args = NoneArgs \/ i = 0 THEN extra_args
        ELSE SubSeq(extra_args, 1, i - 1) \o SubSeq(extra_args, i + 1, Len(extra_args))

\* extra_args without its first "-C <path>" pair.
strip_c_pair(extra_args) ==
    LET i == c_index(extra_args)
    IN  IF extra_args = NoneArgs \/ i = 0 THEN extra_args
        ELSE SubSeq(extra_args, 1, i - 1) \o SubSeq(extra_args, i + 2, Len(extra_args))

\* The directory given to make -C when no -C argument chose it.
default_make_path(current_port, cwd) ==
    LET ports_dir == ports_path \o <<current_port>>
    IN  IF ports_dir \in parents(cwd) \/ ports_dir = cwd
        THEN relative_to(cwd, MpyRoot)
        ELSE <<"ports", current_port>>

\* What the location resolver settled.
Resolved(current_port, make_path, args) ==
    [current_port |-> current_port, make_path |-> make_path, args |-> args]
Unresolved == Resolved(None, NoPath, <<>>)

\* make_command; rc is the container's exit code.
make_command(extra_args, port, cwd, auto_port, host, rc) ==
    LET from_args == port_from_args(extra_args, port, cwd)
        current_port == port_from_cwd(from_args.current_port, cwd, auto_port)
    IN  IF ~Truthy(current_port)
        THEN [out |-> resolution_failure("Could not determine port"),
              resolved |-> Unresolved]
        ELSE IF current_port \notin BuildContainerPorts
        THEN [out |-> resolution_failure("unsupported port"),
              resolved |-> Resolved(current_port, NoPath, <<>>)]
        ELSE
          LET build_container == BUILD_CONTAINERS(current_port)
              make_path == IF from_args.make_path_from_args # NoPath
                           THEN from_args.make_path_from_args
                           ELSE default_make_path(current_port, cwd)
              args == IF from_args.make_path_from_args # NoPath
                      THEN strip_c_pair(extra_args)
                      ELSE IF extra_args = NoneArgs THEN <<>> ELSE extra_args
              build_cmd ==
                  [interactive |-> TRUE, mount |-> MpyRoot, workdir |-> MpyRoot,
                   user |-> <<host.uid, host.gid>>, home |-> host.home,
                   image |-> build_container,
                   script |-> <<GitSafeDirectoryStep,
                                <<Tok("make"), Tok("-j"), Tok(host.nprocs), Tok("-C"),
                                  make_path>> \o args>>]
          IN  [out |-> Outcome(FALSE, build_cmd, << <<"command", "Make Command">> >>,
                               1, rc, "return", NoCode),
               resolved |-> Resolved(current_port, make_path, args)]

(***************************************************************************)
(* The CLI commands                                                        *)
(***************************************************************************)
\* The port whose board list holds `board` (None when no port does).
cli_find_port(board) ==
    LET hits == {p \in DOMAIN ports_and_boards : board \in ports_and_boards[p]}
    IN  IF hits = {} THEN None ELSE CHOOSE p \in hits : TRUE

\* print("... is an invalid board"); raise typer.Exit(code=1)
cli_invalid_board ==
    Outcome(FALSE, NoCmd, <<Tok("is an invalid board")>>, 0, NoCode, "typer.Exit", 1)

\* cli.build: build_board(port, board, idf), bound positionally to
\* build_board(board, variant, extra_args).
cli_build(board, variant, idf, host, rc, deploy_file) ==
    LET port == cli_find_port(board)
    IN  IF ~Truthy(port) THEN cli_invalid_board
        ELSE build_board(port, board, idf, None, host, rc, deploy_file)

\* cli.clean: clean_board(port, board), bound positionally to
\* clean_board(board, variant).
cli_clean(board, variant, host, rc, deploy_file) ==
    LET port == cli_find_port(board)
    IN  IF ~Truthy(port) THEN cli_invalid_board
        ELSE clean_board(port, board, host, rc, deploy_file)

(***************************************************************************)
(* Inputs                                                                  *)
(***************************************************************************)
AllPorts == BuildContainerPorts \cup {"cc3200", "webassembly"}
BoardInputs == BoardNames \cup {"NOPE"}
VariantInputs == {None, "RISCV", "FLASH_2M", "DP", "standard", "BOGUS"}
BuildArgWords ==
    {Tok("clean"), Tok(" clean"), Tok("Clean"), Tok("cleanup"), Tok("all"), Tok("submodules")}
BuildArgLists == SeqsUpTo(BuildArgWords, MaxBuildArgs)
MakeArgWords ==
    {Tok("-C"), <<"/", "tree", "ports", "rp2">>, <<".", "boards">>, <<"/", "other">>,
     Tok("clean")}
\* make_command's extra_args defaults to None.
MakeArgLists == SeqsUpTo(MakeArgWords, MaxMakeArgs) \cup {NoneArgs}
WorkingDirs ==
    {MpyRoot, <<"/", "tree", "ports", "esp32", "boards", "GENERIC">>,
     <<"/", "tree", "ports", "cc3200">>, <<"/", "home", "dev">>}
PortOptions == {None, "stm32"}
AutoPorts == {None, "unix"}
OverrideInputs == {None, "my/image"}
ExitCodes == {0, 2}
\* A board object of every port, for calls that take a Board.
ProbeBoards ==
    Boards \cup {[name |-> "PROBE", port |-> p, physical_board |-> TRUE,
                  variants |-> <<>>, deploy |-> FALSE] : p \in AllPorts}

(***************************************************************************)
(* State                                                                   *)
(***************************************************************************)
VARIABLES
    pc,        \* "idle" before the invocation, "done" after it
    op,        \* the entry point that ran
    inp,       \* its arguments and the environment it read
    out,       \* what the invocation displayed, ran and exited with
    resolved,  \* the location resolver's result (make_command)
    ret        \* the value returned by a direct call of a synthesis function

vars == <<pc, op, inp, out, resolved, ret>>

NoHost == [uid |-> 0, gid |-> 0, home |-> "", nprocs |-> ""]
NoBoard ==
    [name |-> "", port |-> "", physical_board |-> FALSE, variants |-> <<>>, deploy |-> FALSE]
Input(board, variant, extra_args, override, host, deploy_file) ==
    [board |-> board, variant |-> variant, extra_args |-> extra_args,
     override |-> override, host |-> host, deploy_file |-> deploy_file,
     port |-> None, cwd |-> <<>>, auto_port |-> None,
     do_clean |-> FALSE, interactive |-> FALSE, b |-> NoBoard]
NoInput == Input(None, None, <<>>, None, NoHost, FALSE)
NoOutcome == Outcome(FALSE, NoCmd, <<>>, 0, NoCode, "", NoCode)
NoReturn == [raised |-> "", container |-> "", cmd |-> NoCmd]

Init ==
    /\ pc = "idle"
    /\ op = ""
    /\ inp = NoInput
    /\ out = NoOutcome
    /\ resolved = Unresolved
    /\ ret = NoReturn

\* get_build_container(board, variant), called directly.
GetBuildContainer ==
    /\ pc = "idle"
    /\ \E b \in ProbeBoards, variant \in VariantInputs :
         LET r == get_build_container(b, variant)
         IN  /\ inp' = [NoInput EXCEPT !.b = b, !.variant = variant]
             /\ ret' = [raised |-> r.raised, container |-> r.value, cmd |-> NoCmd]
    /\ pc' = "done"
    /\ op' = "get_build_container"
    /\ UNCHANGED <<out, resolved>>

\* docker_build_cmd(...), called directly.
DockerBuildCmd ==
    /\ pc = "idle"
    /\ \E b \in Boards, variant \in VariantInputs, extra_args \in BuildArgLists,
          do_clean \in BOOLEAN, override \in OverrideInputs,
          docker_interactive \in BOOLEAN, host \in Hosts :
         LET r == docker_build_cmd(b, variant, extra_args, do_clean, override,
                                   docker_interactive, host)
         IN  /\ inp' = [Input(b.name, variant, extra_args, override, host, FALSE)
                          EXCEPT !.b = b, !.do_clean = do_clean,
                                 !.interactive = docker_interactive]
             /\ ret' = [raised |-> r.raised, container |-> "", cmd |-> r.value]
    /\ pc' = "done"
    /\ op' = "docker_build_cmd"
    /\ UNCHANGED <<out, resolved>>

\* build_board(board, variant, extra_args, build_container_override)
BuildBoard ==
    /\ pc = "idle"
    /\ \E board \in BoardInputs, variant \in VariantInputs, extra_args \in BuildArgLists,
          override \in OverrideInputs, host \in Hosts, rc \in ExitCodes,
          deploy_file \in BOOLEAN :
         /\ inp' = Input(board, variant, extra_args, override, host, deploy_file)
         /\ out' = build_board(board, variant, extra_args, override, host, rc, deploy_file)
    /\ pc' = "done"
    /\ op' = "build_board"
    /\ UNCHANGED <<resolved, ret>>

\* clean_board(board, variant)
CleanBoard ==
    /\ pc = "idle"
    /\ \E board \in BoardInputs, variant \in VariantInputs, host \in Hosts,
          rc \in ExitCodes, deploy_file \in BOOLEAN :
         /\ inp' = Input(board, variant, <<Tok("clean")>>, None, host, deploy_file)
         /\ out' = clean_board(board, variant, host, rc, deploy_file)
    /\ pc' = "done"
    /\ op' = "clean_board"
    /\ UNCHANGED <<resolved, ret>>

\* make_command(extra_args, port)
MakeCommand ==
    /\ pc = "idle"
    /\ \E extra_args \in MakeArgLists, port \in PortOptions, cwd \in WorkingDirs,
          auto_port \in AutoPorts, host \in Hosts, rc \in ExitCodes :
         LET r == make_command(extra_args, port, cwd, auto_port, host, rc)
         IN  /\ inp' = [Input(None, None, extra_args, None, host, FALSE)
                          EXCEPT !.port = port, !.cwd = cwd, !.auto_port = auto_port]
             /\ out' = r.out
             /\ resolved' = r.resolved
    /\ pc' = "done"
    /\ op' = "make_command"
    /\ UNCHANGED ret

\* mpbuild build <board> [variant]
CliBuild ==
    /\ pc = "idle"
    /\ \E board \in BoardInputs, variant \in VariantInputs, host \in Hosts,
          rc \in ExitCodes, deploy_file \in BOOLEAN :
         /\ inp' = Input(board, variant, NoneArgs, None, host, deploy_file)
         /\ out' = cli_build(board, variant, NoneArgs, host, rc, deploy_file)
    /\ pc' = "done"
    /\ op' = "cli_build"
    /\ UNCHANGED <<resolved, ret>>

\* mpbuild clean <board> [variant]
CliClean ==
    /\ pc = "idle"
    /\ \E board \in BoardInputs, variant \in VariantInputs, host \in Hosts,
          rc \in ExitCodes, deploy_file \in BOOLEAN :
         /\ inp' = Input(board, variant, <<Tok("clean")>>, None, host, deploy_file)
         /\ out' = cli_clean(board, variant, host, rc, deploy_file)
    /\ pc' = "done"
    /\ op' = "cli_clean"
    /\ UNCHANGED <<resolved, ret>>

Next ==
    \/ GetBuildContainer
    \/ DockerBuildCmd
    \/ BuildBoard
    \/ CleanBoard
    \/ MakeCommand
    \/ CliBuild
    \/ CliClean

Spec == Init /\ [][Next]_vars

(***************************************************************************)
(* Properties                                                              *)
(***************************************************************************)
Done(o) == pc = "done" /\ op = o
\* A board build or clean that got as far as synthesizing its command.
BoardRun == pc = "done" /\ op \in {"build_board", "clean_board"} /\ out.build_cmd # NoCmd
\* The process exit status of the invocation.
ExitStatus == exit_status(out.how, out.code)
\* The command panel was displayed n times.
CommandPanels ==
    Cardinality({i \in DOMAIN out.displayed : out.displayed[i][1] = "command"})
DeployShown == \E i \in DOMAIN out.displayed : out.displayed[i] = Tok("deploy")
\* The last step of a script is the main make; the ones before it are pre-build steps.
PreSteps(cmd) == SubSeq(cmd.script, 1, Len(cmd.script) - 1)
MainStep(cmd) == cmd.script[Len(cmd.script)]
IsMpyCrossStep(step) == step = <<Tok("make"), Tok("-C"), Tok("mpy-cross")>>
IsSubmodulesStep(step) == step[1] = Tok("make") /\ step[Len(step)] = Tok("submodules")
HasWord(step, w) == \E i \in DOMAIN step : step[i] = w

\* ---- C1 ----------------------------------------------------------------
\* C1 (as stated): in build_board, do_clean is true iff the extra-argument
\* list is non-empty and its first element is exactly "clean".
C1_DoCleanExactToken ==
    BoardRun =>
        (out.do_clean <=> (inp.extra_args # <<>> /\ inp.extra_args[1] = Tok("clean")))

\* C1 (amended): in build_board, do_clean is true iff the extra-argument list
\* is non-empty and its first element, with leading and trailing whitespace
\* removed, is "clean".
C1_DoCleanStrippedToken ==
    BoardRun =>
        (out.do_clean <=>
            (inp.extra_args # <<>>
             /\ inp.extra_args[1] \in {Tok("clean"), Tok(" clean"), Tok("clean ")}))

C1_Witness ==
    /\ Done("build_board")
    /\ out.build_cmd # NoCmd
    /\ inp.extra_args # <<>>
    /\ inp.extra_args[1] = Tok(" clean")
    /\ out.do_clean

\* ---- C2 ----------------------------------------------------------------
\* "lies inside <tree>/ports/"
InsidePorts(p) == Len(p) > 3 /\ SubSeq(p, 1, 3) = <<"/", "tree", "ports">>
\* The path an argument names, relative paths taken against cwd.
ArgPath(arg, cwd) ==
    LET q == PathOf(arg) IN IF q # <<>> /\ q[1] = "/" THEN q ELSE cwd \o q
\* The positions of the "-C <path>" pairs of an argument list.
CPairs(args) ==
    IF args = NoneArgs THEN {} ELSE {i \in 1..(Len(args) - 1) : args[i] = Tok("-C")}
FirstCPair(args) == CHOOSE i \in CPairs(args) : \A j \in CPairs(args) : i <= j
\* Rule 1: the first -C pair names a path inside ports/.
Rule1 ==
    /\ CPairs(inp.extra_args) # {}
    /\ InsidePorts(ArgPath(inp.extra_args[FirstCPair(inp.extra_args) + 1], inp.cwd))
Rule1Path == ArgPath(inp.extra_args[FirstCPair(inp.extra_args) + 1], inp.cwd)
\* Rule 2: the working directory lies inside ports/<X>/.
Rule2 == InsidePorts(inp.cwd)

\* C2 (as stated): the port is chosen by the first match of (1) the -C path,
\* (2) the working directory, (3) --port; whenever rule 1 or rule 2 matches,
\* the resolved port is the one they yield even if --port is supplied.
C2_PortOverrideLast ==
    Done("make_command") =>
        /\ Rule1 => resolved.current_port = Rule1Path[4]
        /\ (~Rule1 /\ Rule2) => resolved.current_port = inp.cwd[4]
        /\ (~Rule1 /\ ~Rule2 /\ Truthy(inp.port)) => resolved.current_port = inp.port

\* C2 (amended): the port is chosen by the first match of (1) --port when
\* supplied, (2) the first -C pair when its path lies inside ports/, (3) the
\* working directory when it lies inside ports/<X>/, (4) the port reported
\* by find_mpy_root; with none of them the port is undetermined.
C2_PortOverrideFirst ==
    Done("make_command") =>
        resolved.current_port =
            (IF Truthy(inp.port) THEN inp.port
             ELSE IF Rule1 THEN Rule1Path[4]
             ELSE IF Rule2 THEN inp.cwd[4]
             ELSE inp.auto_port)

C2_Witness ==
    /\ Done("make_command")
    /\ Truthy(inp.port)
    /\ Rule1
    /\ Rule2
    /\ Rule1Path[4] # inp.port
    /\ inp.cwd[4] # inp.port
    /\ resolved.current_port = inp.port
    /\ out.build_cmd # NoCmd

\* ---- C3 ----------------------------------------------------------------
\* The invocation's arguments do not resolve.
ResolutionFails ==
    \/ /\ pc = "done" /\ op \in {"build_board", "clean_board"}
       /\ \/ inp.board \notin BoardNames
          \/ /\ inp.variant # None
             /\ \A i \in DOMAIN BoardNamed(inp.board).variants :
                    BoardNamed(inp.board).variants[i] # inp.variant
          \/ BoardNamed(inp.board).port \notin BuildContainerPorts
    \/ /\ Done("make_command")
       /\ resolved.current_port \notin BuildContainerPorts

\* C3: every resolution failure (unknown board, undeclared variant, port
\* without a container, undetermined port) ends the invocation with exit
\* code 1, and no command is synthesized, displayed or executed.
C3_ResolutionFailureExitsOne ==
    ResolutionFails =>
        /\ ExitStatus = 1
        /\ out.build_cmd = NoCmd
        /\ CommandPanels = 0
        /\ out.executed = 0

\* ---- C4 ----------------------------------------------------------------
\* The shape the claim gives a command made for `do_clean` on `host`.
CleanShape(cmd, do_clean, host) ==
    IF do_clean
    THEN /\ \A i \in DOMAIN PreSteps(cmd) :
                ~IsMpyCrossStep(cmd.script[i]) /\ ~IsSubmodulesStep(cmd.script[i])
         /\ cmd.user = <<0, 0>>
    ELSE /\ \E i, j \in DOMAIN PreSteps(cmd) :
                i < j /\ IsMpyCrossStep(cmd.script[i]) /\ IsSubmodulesStep(cmd.script[j])
         /\ cmd.user = <<host.uid, host.gid>>

\* C4: the command docker_build_cmd makes with do_clean true has no
\* `make -C mpy-cross` step and no `submodules` step before its main make
\* and runs as 0:0; with do_clean false it has both, in that order, before
\* the main make and runs as the host's uid:gid.
C4_CleanCommandShape ==
    /\ (Done("docker_build_cmd") /\ ret.raised = "")
           => CleanShape(ret.cmd, inp.do_clean, inp.host)
    /\ BoardRun => CleanShape(out.build_cmd, out.do_clean, inp.host)

C4_Witness ==
    /\ Done("docker_build_cmd")
    /\ ret.raised = ""
    /\ inp.do_clean
    /\ inp.host.uid # 0
    /\ inp.variant # None
    /\ HasWord(MainStep(ret.cmd), Tok("submodules"))
    /\ ret.cmd.user = <<0, 0>>
    /\ Len(ret.cmd.script) = 2

C6_DeployIffBuildSucceeded ==
    BoardRun =>
        (DeployShown <=>
            (/\ ~out.do_clean
             /\ out.returncode = 0
             /\ BoardNamed(inp.board).deploy
             /\ inp.deploy_file))

\* ---- C7 ----------------------------------------------------------------
\* C7: when the executed command exits non-zero, the invocation ends with
\* that exit code, the command having been displayed and run exactly once;
\* for board build, board clean and pass-through make alike.
C7_ExitCodePropagated ==
    (/\ pc = "done"
     /\ op \in {"build_board", "clean_board", "make_command"}
     /\ out.executed > 0
     /\ out.returncode # 0) =>
        /\ ExitStatus = out.returncode
        /\ out.executed = 1
        /\ CommandPanels = 1

\* ---- C8 ----------------------------------------------------------------
\* The argument list without the pair at positions i, i+1.
WithoutPair(args, i) == [k \in 1..(Len(args) - 2) |-> IF k < i THEN args[k] ELSE args[k + 2]]
\* The resolver took its port, make path and forwarded arguments from pair i.
ResolvedFromPair(i) ==
    LET path == ArgPath(inp.extra_args[i + 1], inp.cwd) IN
    /\ resolved.current_port = path[4]
    /\ resolved.make_path = SubSeq(path, 3, Len(path))
    /\ resolved.args = WithoutPair(inp.extra_args, i)

\* C8 (as stated): with no --port, when the extra arguments hold a -C pair
\* whose path lies inside ports/, the resolver yields that path's port and
\* make path and forwards the arguments without that one pair.
C8_AnyCPairResolved ==
    (/\ Done("make_command")
     /\ out.build_cmd # NoCmd
     /\ ~Truthy(inp.port)
     /\ \E i \in CPairs(inp.extra_args) :
            InsidePorts(ArgPath(inp.extra_args[i + 1], inp.cwd))) =>
        \E i \in CPairs(inp.extra_args) :
            /\ InsidePorts(ArgPath(inp.extra_args[i + 1], inp.cwd))
            /\ ResolvedFromPair(i)

\* C8 (amended): with no --port, when the first -C token that has an
\* argument after it names a path inside ports/, the resolver yields port =
\* the first segment under ports/; if that port has a build container, the
\* make path is the path relative to the tree root and the forwarded
\* arguments are the extra arguments without exactly that first pair, the
\* rest verbatim and in order; otherwise no command is made.
C8_FirstCPairResolved ==
    (Done("make_command") /\ ~Truthy(inp.port) /\ Rule1) =>
        /\ resolved.current_port = Rule1Path[4]
        /\ IF Rule1Path[4] \in BuildContainerPorts
           THEN /\ ResolvedFromPair(FirstCPair(inp.extra_args))
                /\ MainStep(out.build_cmd) =
                       <<Tok("make"), Tok("-j"), Tok(inp.host.nprocs), Tok("-C"),
                         resolved.make_path>> \o resolved.args
           ELSE out.build_cmd = NoCmd

C8_Witness ==
    /\ Done("make_command")
    /\ ~Truthy(inp.port)
    /\ inp.extra_args = <<Tok("-C"), <<"/", "tree", "ports", "rp2">>, Tok("clean")>>
    /\ resolved = Resolved("rp2", <<"ports", "rp2">>, <<Tok("clean")>>)

\* ---- C9 ----------------------------------------------------------------
\* C9: `build <board> <variant>` for a catalogued board and a variant
\* declared on it synthesizes a command for that board and variant, the
\* variant passed as BOARD_VARIANT=<variant> for a physical board and as
\* VARIANT=<variant> otherwise (the RISC-V image for PICO RISCV).
C9_CliBuildSynthesizes ==
    (/\ Done("cli_build")
     /\ inp.board \in BoardNames
     /\ inp.variant # None
     /\ find_variant(BoardNamed(inp.board), inp.variant) # None
     /\ BoardNamed(inp.board).port \in BuildContainerPorts) =>
        LET b == BoardNamed(inp.board) IN
        /\ out.build_cmd # NoCmd
        /\ HasWord(MainStep(out.build_cmd), <<"BOARD=", inp.board>>)
        /\ HasWord(MainStep(out.build_cmd),
                   <<(IF b.physical_board THEN "BOARD_VARIANT=" ELSE "VARIANT="),
                     inp.variant>>)
        /\ (inp.board = "PICO" /\ inp.variant = "RISCV") =>
               out.build_cmd.image = "micropython/build-micropython-rp2350riscv"

\* ---- C10 ---------------------------------------------------------------
\* C10: the image in the command make_command synthesizes is the one
\* get_build_container gives for that port with no variant.
C10_MakeImageFollowsRegistry ==
    (Done("make_command") /\ out.build_cmd # NoCmd) =>
        out.build_cmd.image =
            get_build_container([NoBoard EXCEPT !.port = resolved.current_port], None).value

====
